---- MODULE Spec2Model ----
(***************************************************************************)
(* Model of scripts/validate_architecture.py: path-based layer             *)
(* classification, import extraction, the two rule tables, the per-file    *)
(* check, the tree walk and the command-line run.                          *)
(*                                                                         *)
(* Python strings are TLA+ strings; TLC evaluates Len, \o and SubSeq on    *)
(* them, so prefix, suffix, substring and split are computed character by  *)
(* character as the Python methods compute them.                           *)
(***************************************************************************)
EXTENDS Integers, Sequences, FiniteSets, TLC

VARIABLES pc, arg, ret, strict, src_dir_exists, tree, idx, violations, calls,
          exit_status

vars == <<pc, arg, ret, strict, src_dir_exists, tree, idx, violations, calls,
          exit_status>>

(***************************************************************************)
(* Bounds of the model.                                                    *)
(***************************************************************************)
\* longest dotted module name, in segments
MaxSegs == 3
\* deepest path below the start of the path, in segments
MaxDepth == 3
\* longest source text, in lines
MaxLines == 3
\* deepest nesting of a statement
MaxNest == 1
\* most files rglob yields in one run
MaxFiles == 2

(***************************************************************************)
(* Python built-ins used by the program.                                   *)
(***************************************************************************)
None == "<None>"

\* str.startswith
startswith(s, prefix) ==
    Len(prefix) <= Len(s) /\ SubSeq(s, 1, Len(prefix)) = prefix

\* str.endswith
endswith(s, suffix) ==
    Len(suffix) <= Len(s) /\ SubSeq(s, Len(s) - Len(suffix) + 1, Len(s)) = suffix

\* `sub in s` for two strings
str_contains(s, sub) ==
    \E i \in 1..(Len(s) - Len(sub) + 1) : SubSeq(s, i, i + Len(sub) - 1) = sub

\* index of the first occurrence of the one-character sep in s, 0 if none
str_find(s, sep) ==
    IF \E i \in 1..Len(s) : SubSeq(s, i, i) = sep
    THEN CHOOSE i \in 1..Len(s) :
            /\ SubSeq(s, i, i) = sep
            /\ \A j \in 1..(i - 1) : SubSeq(s, j, j) # sep
    ELSE 0

\* str.split(sep) for a one-character separator
RECURSIVE str_split(_, _)
str_split(s, sep) ==
    LET k == str_find(s, sep)
    IN  IF k = 0 THEN <<s>>
        ELSE <<SubSeq(s, 1, k - 1)>> \o str_split(SubSeq(s, k + 1, Len(s)), sep)

\* `x in lst` for a list
list_contains(lst, x) == \E i \in 1..Len(lst) : lst[i] = x

\* dict.get(key, [])
dict_get(d, key) == IF key \in DOMAIN d THEN d[key] ELSE <<>>

\* the concatenation of a list of lists (list.append / list.extend in a loop)
RECURSIVE concat(_)
concat(lists) ==
    IF lists = <<>> THEN <<>> ELSE Head(lists) \o concat(Tail(lists))

(***************************************************************************)
(* The rule tables.                                                        *)
(***************************************************************************)
FORBIDDEN_FRAMEWORKS ==
    [domain |-> <<"fastapi", "flask", "sqlalchemy", "pydantic", "django",
                  "celery", "redis">>,
     application |-> <<"fastapi", "flask", "django">>]

FORBIDDEN_LAYERS ==
    [domain |-> <<"application", "infrastructure", "presentation">>,
     application |-> <<"infrastructure", "presentation">>,
     infrastructure |-> <<"presentation">>]

Violation(file, line, layer, import_name, reason) ==
    [file |-> file, line |-> line, layer |-> layer,
     import_name |-> import_name, reason |-> reason]

(***************************************************************************)
(* get_layer                                                               *)
(***************************************************************************)
LAYER_ORDER == <<"domain", "application", "infrastructure", "presentation">>

layer_matches(filepath, layer) ==
    \/ str_contains(filepath, "/" \o layer \o "/")
    \/ endswith(filepath, "/" \o layer)

get_layer(filepath) ==
    IF \E i \in 1..Len(LAYER_ORDER) : layer_matches(filepath, LAYER_ORDER[i])
    THEN LAYER_ORDER[CHOOSE i \in 1..Len(LAYER_ORDER) :
            /\ layer_matches(filepath, LAYER_ORDER[i])
            /\ \A j \in 1..(i - 1) : ~layer_matches(filepath, LAYER_ORDER[j])]
    ELSE None

(***************************************************************************)
(* Source files.  A file is [path, content]; its content is what           *)
(* Path.read_text() meets: io = "ok" with the decoded text, or the error   *)
(* it raises (UnicodeDecodeError for undecodable bytes, OSError for a      *)
(* path that cannot be read: a directory named x.py, a dangling link, a    *)
(* file without read permission).  The text is a sequence of lines, each   *)
(* one statement at a nesting depth:                                       *)
(*   kind "import": import names[1], names[2], ...                         *)
(*   kind "from"  : from <level dots><module> import y  (module "" = none) *)
(*   kind "block" : a compound statement header (if ...: / def f():)       *)
(*   kind "junk"  : text that is no statement                              *)
(***************************************************************************)
Line(indent, kind, names, module, level) ==
    [indent |-> indent, kind |-> kind, names |-> names, module |-> module,
     level |-> level]

ImportLine(indent, names) == Line(indent, "import", names, "", 0)
FromLine(indent, module, level) == Line(indent, "from", <<>>, module, level)
BlockLine(indent) == Line(indent, "block", <<>>, "", 0)
JunkLine(indent) == Line(indent, "junk", <<>>, "", 0)

Text(lines) == [io |-> "ok", lines |-> lines]
Undecodable == [io |-> "UnicodeDecodeError", lines |-> <<>>]
Unreadable == [io |-> "OSError", lines |-> <<>>]

(***************************************************************************)
(* ast.parse and ast.walk.  A node is [type, names, module, level, lineno, *)
(* body]; module is None for `from . import y`.  (The alias children of an *)
(* import node are left out: extract_imports tests no node of that type.)  *)
(***************************************************************************)
Node(type, names, module, level, lineno, body) ==
    [type |-> type, names |-> names, module |-> module, level |-> level,
     lineno |-> lineno, body |-> body]

\* the node of the simple statement on line i
stmt_node(line, i) ==
    IF line.kind = "import"
    THEN Node("Import", line.names, None, 0, i, <<>>)
    ELSE Node("ImportFrom", <<>>,
              IF line.module = "" THEN None ELSE line.module, line.level, i, <<>>)

ParseError == [ok |-> FALSE, stmts |-> <<>>, next |-> 0]

\* the statements at nesting depth d that start at line i
RECURSIVE parse_block(_, _, _)
parse_block(lines, i, d) ==
    IF i > Len(lines) \/ lines[i].indent < d
    THEN [ok |-> TRUE, stmts |-> <<>>, next |-> i]
    ELSE IF lines[i].indent > d \/ lines[i].kind = "junk"
    THEN ParseError
    ELSE IF lines[i].kind = "block"
    THEN LET body == parse_block(lines, i + 1, d + 1)
         IN  IF ~body.ok \/ body.stmts = <<>>
             THEN ParseError
             ELSE LET rest == parse_block(lines, body.next, d)
                  IN  IF ~rest.ok THEN ParseError
                      ELSE [ok |-> TRUE,
                            stmts |-> <<Node("If", <<>>, None, 0, i, body.stmts)>>
                                      \o rest.stmts,
                            next |-> rest.next]
    ELSE LET rest == parse_block(lines, i + 1, d)
         IN  IF ~rest.ok THEN ParseError
             ELSE [ok |-> TRUE,
                   stmts |-> <<stmt_node(lines[i], i)>> \o rest.stmts,
                   next |-> rest.next]

\* ast.parse: the Module node, or SyntaxError
ast_parse(lines) ==
    LET r == parse_block(lines, 1, 0)
    IN  IF r.ok
        THEN [ok |-> TRUE, tree |-> Node("Module", <<>>, None, 0, 0, r.stmts)]
        ELSE [ok |-> FALSE, tree |-> Node("Module", <<>>, None, 0, 0, <<>>)]

iter_child_nodes(node) == node.body

\* only the module's own statements: a walk that does not descend
RECURSIVE ast_walk_toplevel(_)
ast_walk_toplevel(todo) ==
    IF todo = <<>> THEN <<>>
    ELSE <<Head(todo)>> \o
         (IF Head(todo).type = "Module" THEN iter_child_nodes(Head(todo)) ELSE <<>>)
         \o ast_walk_toplevel(Tail(todo))

\* ast.walk: breadth first from the queue todo
RECURSIVE ast_walk(_)
ast_walk(todo) ==
    IF todo = <<>> THEN <<>>
    ELSE <<Head(todo)>> \o ast_walk(Tail(todo) \o iter_child_nodes(Head(todo)))

(***************************************************************************)
(* extract_imports: [raised, imports]; raised names the exception that     *)
(* leaves the function, None when it returns; imports is the list of       *)
(* <<name, lineno>> pairs it returns.                                      *)
(***************************************************************************)
node_imports(node) ==
    IF node.type = "Import"
    THEN [k \in 1..Len(node.names) |-> <<node.names[k], node.lineno>>]
    ELSE IF node.type = "ImportFrom" /\ node.module # None
    THEN <<<<node.module, node.lineno>>>>
    ELSE <<>>

extract_imports(content) ==
    IF content.io = "OSError"
    THEN [raised |-> "OSError", imports |-> <<>>]
    ELSE IF content.io = "UnicodeDecodeError"
    THEN [raised |-> None, imports |-> <<>>]
    ELSE LET parsed == ast_parse(content.lines)
         IN  IF ~parsed.ok
             THEN [raised |-> None, imports |-> <<>>]
             ELSE LET nodes == ast_walk(<<parsed.tree>>)
                  IN  [raised |-> None,
                       imports |-> concat([k \in 1..Len(nodes) |->
                                              node_imports(nodes[k])])]

(***************************************************************************)
(* check_file: [raised, violations, extracted]; extracted tells whether    *)
(* extract_imports was called.                                             *)
(***************************************************************************)
\* a bare prefix test
framework_match_prefix(module, framework) == startswith(module, framework)

\* line 82
framework_match(module, framework) ==
    module = framework \/ startswith(module, framework \o ".")

\* a substring test
layer_match_substring(module, forbidden_layer) ==
    str_contains(module, forbidden_layer)

\* line 93
layer_match(module, forbidden_layer) ==
    list_contains(str_split(module, "."), forbidden_layer)

framework_reason(layer, framework) ==
    layer \o " cannot import framework '" \o framework \o "'"

layer_reason(layer, forbidden_layer) ==
    layer \o " cannot import from " \o forbidden_layer

\* lines 81-89: the framework loop for one import
check_frameworks(path_str, layer, module, line) ==
    LET frameworks == dict_get(FORBIDDEN_FRAMEWORKS, layer)
    IN  concat([k \in 1..Len(frameworks) |->
            IF framework_match(module, frameworks[k])
            THEN <<Violation(path_str, line, layer, module,
                             framework_reason(layer, frameworks[k]))>>
            ELSE <<>>])

\* lines 92-100: the layer loop for one import
check_layers(path_str, layer, module, line) ==
    LET layers == dict_get(FORBIDDEN_LAYERS, layer)
    IN  concat([k \in 1..Len(layers) |->
            IF layer_match(module, layers[k])
            THEN <<Violation(path_str, line, layer, module,
                             layer_reason(layer, layers[k]))>>
            ELSE <<>>])

\* the layer loop skipped once the framework loop has reported the import
check_import_first_only(path_str, layer, module, line) ==
    IF check_frameworks(path_str, layer, module, line) # <<>>
    THEN check_frameworks(path_str, layer, module, line)
    ELSE check_layers(path_str, layer, module, line)

\* the layer loop reporting every segment that names a forbidden layer
check_import_per_segment(path_str, layer, module, line) ==
    LET segs == str_split(module, ".")
    IN  check_frameworks(path_str, layer, module, line)
        \o concat([k \in 1..Len(segs) |->
              IF list_contains(dict_get(FORBIDDEN_LAYERS, layer), segs[k])
              THEN <<Violation(path_str, line, layer, module,
                               layer_reason(layer, segs[k]))>>
              ELSE <<>>])

\* lines 80-100: the body of the loop over the imports
check_import(path_str, layer, module, line) ==
    check_frameworks(path_str, layer, module, line)
    \o check_layers(path_str, layer, module, line)

\* the file checked whatever its layer
check_file_unguarded(py_file) ==
    LET path_str == py_file.path
        layer == get_layer(path_str)
        extracted == extract_imports(py_file.content)
    IN  IF extracted.raised # None
        THEN [raised |-> extracted.raised, violations |-> <<>>, extracted |-> TRUE]
        ELSE [raised |-> None,
              violations |-> concat([k \in 1..Len(extracted.imports) |->
                  check_import(path_str, layer, extracted.imports[k][1],
                               extracted.imports[k][2])]),
              extracted |-> TRUE]

check_file(py_file) ==
    LET path_str == py_file.path
        layer == get_layer(path_str)
    IN  IF layer = None
        THEN [raised |-> None, violations |-> <<>>, extracted |-> FALSE]
        ELSE LET extracted == extract_imports(py_file.content)
             IN  IF extracted.raised # None
                 THEN [raised |-> extracted.raised, violations |-> <<>>,
                       extracted |-> TRUE]
                 ELSE [raised |-> None,
                       violations |-> concat([k \in 1..Len(extracted.imports) |->
                           check_import(path_str, layer, extracted.imports[k][1],
                                        extracted.imports[k][2])]),
                       extracted |-> TRUE]

File(path, content) == [path |-> path, content |-> content]

(***************************************************************************)
(* Inputs.                                                                 *)
(***************************************************************************)
\* the strings of exactly n segments of pool joined by sep
RECURSIVE joined(_, _, _)
joined(pool, sep, n) ==
    IF n = 1 THEN pool
    ELSE {a \o sep \o b : a \in pool, b \in joined(pool, sep, n - 1)}

\* the sequences over S of length at most n
RECURSIVE seqs_upto(_, _)
seqs_upto(S, n) ==
    IF n = 0 THEN {<<>>}
    ELSE LET shorter == seqs_upto(S, n - 1)
         IN  shorter \cup {Append(q, x) : q \in shorter, x \in S}

\* path segments: the layer names, near misses of one, and other names
PathSegments ==
    {"src", "domain", "application", "infrastructure", "presentation",
     "domainx", "a.py"}

\* str(path) of relative and absolute paths
PathUniverse ==
    LET rel == UNION {joined(PathSegments, "/", n) : n \in 1..MaxDepth}
    IN  rel \cup {"/" \o p : p \in rel}

\* segments of module names: forbidden frameworks and layers, near misses
ModuleSegments ==
    {"fastapi", "fastapix", "application", "infrastructure", "infrastructurex",
     "presentation", "os"}

ModuleNames == UNION {joined(ModuleSegments, ".", n) : n \in 1..MaxSegs}

\* one file per layer and one outside every layer
CheckPaths ==
    {"src/domain/m.py", "src/application/m.py", "src/infrastructure/m.py",
     "src/presentation/m.py", "src/util/m.py"}

\* `import M`, and `import M` followed by `from M import y`
CheckContents ==
    {Text(<<ImportLine(0, <<m>>)>>) : m \in ModuleNames}
    \cup {Text(<<ImportLine(0, <<m>>), FromLine(0, m, 0)>>) : m \in ModuleNames}

\* the statements a line of source text can hold
Statements(indent) ==
    {ImportLine(indent, <<"os">>), ImportLine(indent, <<"os", "sys">>),
     FromLine(indent, "fastapi", 0), FromLine(indent, "", 1),
     FromLine(indent, "x", 1), BlockLine(indent), JunkLine(indent)}

SourceLines == UNION {Statements(indent) : indent \in 0..MaxNest}

ExtractContents ==
    {Text(lines) : lines \in seqs_upto(SourceLines, MaxLines)}
    \cup {Undecodable, Unreadable}

(***************************************************************************)
(* The functions applied to bounded inputs: get_layer (SpecLayer),         *)
(* extract_imports (SpecExtract) and check_file (SpecCheck).               *)
(***************************************************************************)
NoRun ==
    /\ strict = FALSE
    /\ src_dir_exists = FALSE
    /\ tree = <<>>
    /\ idx = 0
    /\ violations = <<>>
    /\ calls = <<>>
    /\ exit_status = -1

run_vars == <<strict, src_dir_exists, tree, idx, violations, calls, exit_status>>

InitLayer ==
    /\ pc = "call"
    /\ arg \in PathUniverse
    /\ ret = None
    /\ NoRun

CallGetLayer ==
    /\ pc = "call"
    /\ ret' = get_layer(arg)
    /\ pc' = "returned"
    /\ UNCHANGED <<arg, run_vars>>

SpecLayer == InitLayer /\ [][CallGetLayer]_vars

InitExtract ==
    /\ pc = "call"
    /\ arg \in ExtractContents
    /\ ret = None
    /\ NoRun

CallExtractImports ==
    /\ pc = "call"
    /\ ret' = extract_imports(arg)
    /\ pc' = IF extract_imports(arg).raised = None THEN "returned" ELSE "raised"
    /\ UNCHANGED <<arg, run_vars>>

SpecExtract == InitExtract /\ [][CallExtractImports]_vars

InitCheck ==
    /\ pc = "call"
    /\ arg \in {File(p, c) : p \in CheckPaths, c \in CheckContents}
    /\ ret = None
    /\ NoRun

CallCheckFile ==
    /\ pc = "call"
    /\ ret' = check_file(arg)
    /\ pc' = IF check_file(arg).raised = None THEN "returned" ELSE "raised"
    /\ UNCHANGED <<arg, run_vars>>

SpecCheck == InitCheck /\ [][CallCheckFile]_vars

(***************************************************************************)
(* The command-line run: main, with validate's loop one file per step.     *)
(* tree is what src_dir.rglob("*.py") yields, in its order; calls records  *)
(* each call of check_file and what came of it.  exit_status is -1 while   *)
(* the process runs.  An exception that nothing catches ends the process   *)
(* with a traceback and status 1.                                          *)
(***************************************************************************)
RunPaths ==
    {"src/domain/order.py", "src/application/svc.py", "src/util/helper.py",
     "src/domain/__pycache__/order.py", "src/not__pycache__/domain/a.py"}

RunContents ==
    {Text(<<ImportLine(0, <<"fastapi.infrastructure.module">>)>>),
     Text(<<BlockLine(0), FromLine(1, "fastapi", 0), FromLine(0, "fastapi", 0)>>),
     Text(<<ImportLine(0, <<"os">>)>>),
     Text(<<JunkLine(0)>>),
     Undecodable,
     Unreadable}

RunFiles == {File(p, c) : p \in RunPaths, c \in RunContents}

\* the directory listings: no path twice
Trees ==
    {t \in seqs_upto(RunFiles, MaxFiles) :
        \A i, j \in 1..Len(t) : t[i].path = t[j].path => i = j}

\* line 109
in_pycache(py_file) == str_contains(py_file.path, "__pycache__")

Init ==
    /\ pc = "main"
    /\ arg = None
    /\ ret = None
    /\ strict \in BOOLEAN
    /\ src_dir_exists \in BOOLEAN
    /\ tree \in IF src_dir_exists THEN Trees ELSE {<<>>}
    /\ idx = 1
    /\ violations = <<>>
    /\ calls = <<>>
    /\ exit_status = -1

\* lines 121-123
MainNotFound ==
    /\ pc = "main"
    /\ ~src_dir_exists
    /\ pc' = "exit"
    /\ exit_status' = 1
    /\ UNCHANGED <<arg, ret, strict, src_dir_exists, tree, idx, violations, calls>>

\* line 125: the call of validate
MainValidate ==
    /\ pc = "main"
    /\ src_dir_exists
    /\ pc' = "validate"
    /\ violations' = <<>>
    /\ idx' = 1
    /\ UNCHANGED <<arg, ret, strict, src_dir_exists, tree, calls, exit_status>>

\* lines 108-111: one turn of validate's loop
ValidateFile ==
    /\ pc = "validate"
    /\ idx <= Len(tree)
    /\ LET py_file == tree[idx]
           result == check_file(py_file)
       IN  IF in_pycache(py_file)
           THEN /\ idx' = idx + 1
                /\ UNCHANGED <<pc, violations, calls, exit_status>>
           ELSE IF result.raised # None
           THEN /\ calls' = Append(calls, [file |-> py_file.path, result |-> result])
                /\ pc' = "raised"
                /\ exit_status' = 1
                /\ UNCHANGED <<idx, violations>>
           ELSE /\ calls' = Append(calls, [file |-> py_file.path, result |-> result])
                /\ violations' = violations \o result.violations
                /\ idx' = idx + 1
                /\ UNCHANGED <<pc, exit_status>>
    /\ UNCHANGED <<arg, ret, strict, src_dir_exists, tree>>

\* lines 112, 127-145: validate returns, main reports and ends
MainReport ==
    /\ pc = "validate"
    /\ idx > Len(tree)
    /\ pc' = "exit"
    /\ exit_status' = IF violations # <<>> /\ strict THEN 1 ELSE 0
    /\ UNCHANGED <<arg, ret, strict, src_dir_exists, tree, idx, violations, calls>>

Next == MainNotFound \/ MainValidate \/ ValidateFile \/ MainReport

Spec == Init /\ [][Next]_vars

(***************************************************************************)
(* What the properties are stated with.  The matches are restated on the   *)
(* characters of the name, without startswith or split.                    *)
(***************************************************************************)
char_at(s, i) == SubSeq(s, i, i)

\* M is F, or F followed by a dot and more
NamesFramework(M, F) ==
    \/ M = F
    \/ /\ Len(M) > Len(F)
       /\ \A i \in 1..Len(F) : char_at(M, i) = char_at(F, i)
       /\ char_at(M, Len(F) + 1) = "."

\* K is one of the pieces of s between separators
HasSegment(s, K, sep) ==
    \E i \in 1..Len(s) : \E j \in i..Len(s) :
        /\ SubSeq(s, i, j) = K
        /\ (i = 1 \/ char_at(s, i - 1) = sep)
        /\ (j = Len(s) \/ char_at(s, j + 1) = sep)

\* how many entries of the sequence q satisfy Test
Count(q, Test(_)) == Cardinality({k \in 1..Len(q) : Test(q[k])})

\* the file, layer and import of a call of check_file on a one-name source
CheckedLayer == get_layer(arg.path)
CheckedName == arg.content.lines[1].names[1]
CheckedLines == Len(arg.content.lines)
Frameworks == dict_get(FORBIDDEN_FRAMEWORKS, CheckedLayer)
Layers == dict_get(FORBIDDEN_LAYERS, CheckedLayer)
FrameworkReason(F) == CheckedLayer \o " cannot import framework '" \o F \o "'"
LayerReason(K) == CheckedLayer \o " cannot import from " \o K
Reported == pc = "returned" /\ CheckedLayer # None

\* C1: in a file of layer L, an import named M is reported for forbidden
\* framework F of L exactly when M is F or starts with F followed by a dot.
C1_FrameworkBoundary ==
    Reported =>
        \A k \in 1..Len(Frameworks) :
            (\E v \in 1..Len(ret.violations) :
                /\ ret.violations[v].reason = FrameworkReason(Frameworks[k])
                /\ ret.violations[v].import_name = CheckedName)
            <=> NamesFramework(CheckedName, Frameworks[k])

\* C1: a domain file importing fastapix, which only starts like fastapi.
C1_Witness ==
    /\ pc = "returned"
    /\ arg.path = "src/domain/m.py"
    /\ CheckedName = "fastapix"
    /\ ret.violations = <<>>

\* C2: in a file of layer L, an import named M is reported for forbidden
\* layer K of L exactly when K is one of the dot-separated segments of M.
C2_LayerBoundary ==
    Reported =>
        \A k \in 1..Len(Layers) :
            (\E v \in 1..Len(ret.violations) :
                /\ ret.violations[v].reason = LayerReason(Layers[k])
                /\ ret.violations[v].import_name = CheckedName)
            <=> HasSegment(CheckedName, Layers[k], ".")

\* C2: a domain file importing infrastructurex.os, whose first segment only
\* contains the layer name.
C2_Witness ==
    /\ pc = "returned"
    /\ arg.path = "src/domain/m.py"
    /\ CheckedName = "infrastructurex.os"
    /\ ret.violations = <<>>

\* C3: check_file returns, for every import edge of a classified file, one
\* violation per matching forbidden framework and one per matching forbidden
\* layer, each with the file, line, layer, name and reason of its match, and
\* nothing else; the same name imported on two lines is reported for both;
\* `import fastapi.infrastructure.os` in a domain file gives exactly the
\* framework violation followed by the layer violation.
C3_AllMatchesCollected ==
    Reported =>
        LET vs == ret.violations
            Is(ln, reason, v) ==
                v = [file |-> arg.path, line |-> ln, layer |-> CheckedLayer,
                     import_name |-> CheckedName, reason |-> reason]
            FwHits == {k \in 1..Len(Frameworks) :
                          NamesFramework(CheckedName, Frameworks[k])}
            LyHits == {k \in 1..Len(Layers) :
                          HasSegment(CheckedName, Layers[k], ".")}
        IN  /\ Len(vs) = CheckedLines * (Cardinality(FwHits) + Cardinality(LyHits))
            /\ \A ln \in 1..CheckedLines :
                /\ \A k \in 1..Len(Frameworks) :
                      Cardinality({i \in 1..Len(vs) :
                          Is(ln, FrameworkReason(Frameworks[k]), vs[i])})
                      = IF k \in FwHits THEN 1 ELSE 0
                /\ \A k \in 1..Len(Layers) :
                      Cardinality({i \in 1..Len(vs) :
                          Is(ln, LayerReason(Layers[k]), vs[i])})
                      = IF k \in LyHits THEN 1 ELSE 0
            /\ (/\ arg.path = "src/domain/m.py"
                /\ CheckedName = "fastapi.infrastructure.os"
                /\ CheckedLines = 1)
               => vs = <<[file |-> "src/domain/m.py", line |-> 1,
                          layer |-> "domain",
                          import_name |-> "fastapi.infrastructure.os",
                          reason |-> "domain cannot import framework 'fastapi'"],
                         [file |-> "src/domain/m.py", line |-> 1,
                          layer |-> "domain",
                          import_name |-> "fastapi.infrastructure.os",
                          reason |-> "domain cannot import from infrastructure"]>>

\* C3: a domain file importing fastapi.infrastructure.os on two lines: four
\* violations, two for each line.
C3_Witness ==
    /\ pc = "returned"
    /\ arg.path = "src/domain/m.py"
    /\ CheckedName = "fastapi.infrastructure.os"
    /\ CheckedLines = 2
    /\ Len(ret.violations) = 4
    /\ ret.violations[1].line = 1
    /\ ret.violations[4].line = 2

C5_SegmentClassification ==
    pc = "returned" =>
        ret = IF HasSegment(arg, "domain", "/") THEN "domain"
              ELSE IF HasSegment(arg, "application", "/") THEN "application"
              ELSE IF HasSegment(arg, "infrastructure", "/") THEN "infrastructure"
              ELSE IF HasSegment(arg, "presentation", "/") THEN "presentation"
              ELSE None

\* the source text parses
Parsable == arg.io = "ok" /\ ast_parse(arg.lines).ok

\* the edges extract_imports returned for line ln, in their order
EdgesOfLine(ln) == SelectSeq(ret.imports, LAMBDA e : e[2] = ln)

\* C7 as claimed: extract_imports never raises.
C7_NeverRaises == pc # "raised"

\* C10 as claimed: for parsable source every import statement yields exactly
\* one edge and every from-import with a module name exactly one edge, with
\* the statement's line; a from-import without module name yields none.
C10_OneEdgePerStatement ==
    (pc = "returned" /\ Parsable) =>
        \A ln \in 1..Len(arg.lines) :
            Len(EdgesOfLine(ln)) =
                IF arg.lines[ln].kind = "import" THEN 1
                ELSE IF arg.lines[ln].kind = "from" /\ arg.lines[ln].module # ""
                THEN 1 ELSE 0

\* C10 as amended: for parsable source every import statement, nested or
\* not, yields one edge per name it lists, in order, and every from-import
\* with a module name one edge named by the module without its leading
\* dots, each with the statement's 1-based line; nothing else yields an edge.
C10_OneEdgePerName ==
    (pc = "returned" /\ Parsable) =>
        /\ \A e \in 1..Len(ret.imports) : ret.imports[e][2] \in 1..Len(arg.lines)
        /\ \A ln \in 1..Len(arg.lines) :
            EdgesOfLine(ln) =
                IF arg.lines[ln].kind = "import"
                THEN [k \in 1..Len(arg.lines[ln].names) |->
                         <<arg.lines[ln].names[k], ln>>]
                ELSE IF arg.lines[ln].kind = "from" /\ arg.lines[ln].module # ""
                THEN <<<<arg.lines[ln].module, ln>>>>
                ELSE <<>>

\* C10: a nested two-name import on line 2 and `from . import y` on line 3.
C10_Witness ==
    /\ pc = "returned"
    /\ arg = Text(<<BlockLine(0), ImportLine(1, <<"os", "sys">>),
                    FromLine(0, "", 1)>>)
    /\ ret.imports = <<<<"os", 2>>, <<"sys", 2>>>>

\* the path has a directory named __pycache__ above the file
HasCacheDirectory(path) ==
    LET segs == str_split(path, "/")
    IN  \E k \in 1..(Len(segs) - 1) : segs[k] = "__pycache__"

WasChecked(path) == \E k \in 1..Len(calls) : calls[k].file = path

\* C4 as claimed: a missing root ends the run with a failure status and no
\* validation; otherwise the run fails exactly when strict mode is on and
\* there are violations.
C4_ExitStatus ==
    exit_status # -1 =>
        IF ~src_dir_exists
        THEN exit_status = 1 /\ calls = <<>> /\ violations = <<>>
        ELSE (exit_status # 0) <=> (strict /\ violations # <<>>)

\* C6: check_file on a path of no layer returns no violations and does not
\* extract the imports, and validate's result holds no violation of such a
\* path.
C6_UnclassifiedSilent ==
    /\ \A k \in 1..Len(calls) :
          get_layer(calls[k].file) = None =>
              calls[k].result = [raised |-> None, violations |-> <<>>,
                                 extracted |-> FALSE]
    /\ \A k \in 1..Len(violations) : get_layer(violations[k].file) # None

\* C6: src/util/helper.py, importing fastapi.infrastructure.module, has been
\* checked and the run has ended.
C6_Witness ==
    /\ pc = "exit"
    /\ \E k \in 1..Len(tree) :
          /\ tree[k] = File("src/util/helper.py",
                 Text(<<ImportLine(0, <<"fastapi.infrastructure.module">>)>>))
          /\ WasChecked(tree[k].path)

\* C8 as claimed: of the files the loop has passed, exactly those without a
\* __pycache__ directory in their path were handed to check_file.
C8_CacheDirectoryOnly ==
    \A k \in 1..Len(tree) :
        k < idx => (WasChecked(tree[k].path) <=> ~HasCacheDirectory(tree[k].path))

====
